---------------------------- MODULE Spec2Model ----------------------------
(***************************************************************************)
(* A model of backend/scripts/gosec-compare.py: the path normaliser, the   *)
(* anchor and fingerprint functions, the findings loader and main()'s      *)
(* diff, listing, report and exit code.                                    *)
(*                                                                         *)
(* Python str values are TLA+ strings; the str methods the script calls    *)
(* (strip, splitlines, split, replace, rstrip, startswith, find, join,     *)
(* the ordering used by sorted) are the operators of the first section.    *)
(* Python dicts are functions whose DOMAIN is the set of keys present, so  *)
(* d.get(k, default) and d[k] (KeyError when k is absent) are different    *)
(* things in the model as they are in the code.                            *)
(***************************************************************************)
EXTENDS Integers, Sequences, FiniteSets, TLC

VARIABLES
    pc,               \* position of the run (or of the function application)
    \* ---- main(): inputs
    results_file,     \* the file named by --results
    baseline_file,    \* the file named by --baseline
    \* ---- main(): locals and effects
    current,          \* fingerprint -> issue, from --results
    baseline,         \* fingerprint -> issue, from --baseline
    stats_cur,        \* Stats of --results
    stats_base,       \* Stats of --baseline
    new_issues,       \* list of issues, or NotComputed
    resolved_issues,  \* list of issues, or NotComputed
    stdout,           \* lines printed so far
    report,           \* content written to --output, or NotWritten
    exit_code,        \* process exit status, or Running
    error,            \* uncaught exception that ended the run, or "none"
    \* ---- _normalize_path applied once and twice
    raw_file,
    base_dir,
    norm_once,
    norm_twice,
    \* ---- _anchor / fingerprint applied to a snippet numbered from two lines
    src_lines,        \* the source lines of the snippet, each [numbered, text]
    line_a,
    line_b,
    anchor_a,
    fp_a,
    fp_b

vars == << pc, results_file, baseline_file, current, baseline, stats_cur,
           stats_base, new_issues, resolved_issues, stdout, report, exit_code,
           error, raw_file, base_dir, norm_once, norm_twice, src_lines,
           line_a, line_b, anchor_a, fp_a, fp_b >>

mainVars == << results_file, baseline_file, current, baseline, stats_cur,
               stats_base, new_issues, resolved_issues, stdout, report,
               exit_code, error >>
pathVars == << raw_file, base_dir, norm_once, norm_twice >>
anchorVars == << src_lines, line_a, line_b, anchor_a, fp_a, fp_b >>

-----------------------------------------------------------------------------
(* Python str                                                              *)

\* The printable ASCII characters in code-point order: 32 (space) to 95, and
\* 97 to 126. (96, the backquote, cannot be written in a TLA+ string; no
\* string of the model holds one.)
AsciiLow ==
    " !\"#$%&'(" \o ")*+,-./0123456789:;<=>?@ABCDEFGHIJKLMNOPQRSTUVWXYZ[\\]^_"
AsciiHigh == "abcdefghijklmnopqrstuvwxyz{|}~"

CharAt(s, i) == SubSeq(s, i, i)

\* ord(c)
Ord(c) ==
    IF c = "\n" THEN 10
    ELSE IF c = "\t" THEN 9
    ELSE IF \E i \in 1..Len(AsciiLow) : CharAt(AsciiLow, i) = c
         THEN 31 + CHOOSE i \in 1..Len(AsciiLow) : CharAt(AsciiLow, i) = c
         ELSE 96 + CHOOSE i \in 1..Len(AsciiHigh) : CharAt(AsciiHigh, i) = c

\* a < b for str: code-point lexicographic, a proper prefix first.
RECURSIVE StrLess(_, _)
StrLess(a, b) ==
    IF b = "" THEN FALSE
    ELSE IF a = "" THEN TRUE
    ELSE IF Head(a) = Head(b) THEN StrLess(Tail(a), Tail(b))
    ELSE Ord(Head(a)) < Ord(Head(b))

\* str.isspace() for one character (the whitespace of the modelled alphabet).
IsSpace(c) == c \in {" ", "\t", "\n"}

RECURSIVE LStrip(_)
LStrip(s) == IF s # "" /\ IsSpace(Head(s)) THEN LStrip(Tail(s)) ELSE s

RECURSIVE RStrip(_)
RStrip(s) ==
    IF s # "" /\ IsSpace(CharAt(s, Len(s)))
    THEN RStrip(SubSeq(s, 1, Len(s) - 1)) ELSE s

\* s.strip()
Strip(s) == RStrip(LStrip(s))

\* s.startswith(p)
StartsWith(s, p) == Len(p) <= Len(s) /\ SubSeq(s, 1, Len(p)) = p

\* s.find(sub, i): the lowest 0-based index >= i where sub occurs, -1 if none.
RECURSIVE FindFrom(_, _, _)
FindFrom(s, sub, i) ==
    IF i + Len(sub) > Len(s) THEN -1
    ELSE IF SubSeq(s, i + 1, i + Len(sub)) = sub THEN i
    ELSE FindFrom(s, sub, i + 1)

\* s.find(sub)
Find(s, sub) == FindFrom(s, sub, 0)

\* sub in s
Contains(s, sub) == Find(s, sub) >= 0

\* s[n:]
From(s, n) == SubSeq(s, n + 1, Len(s))

\* s[:n]
UpTo(s, n) == SubSeq(s, 1, IF n < Len(s) THEN n ELSE Len(s))

\* s.split(sep, 1)[1], for s that contains sep
AfterFirst(s, sep) == From(s, Find(s, sep) + Len(sep))

\* s.replace("\\", "/")
RECURSIVE ReplaceBackslash(_)
ReplaceBackslash(s) ==
    IF s = "" THEN ""
    ELSE (IF Head(s) = "\\" THEN "/" ELSE Head(s)) \o ReplaceBackslash(Tail(s))

\* s.rstrip("/")
RECURSIVE RStripSlash(_)
RStripSlash(s) ==
    IF s # "" /\ CharAt(s, Len(s)) = "/"
    THEN RStripSlash(SubSeq(s, 1, Len(s) - 1)) ELSE s

\* s.splitlines(), for the line boundary "\n": no empty last line after a
\* final "\n", and no line at all for "".
RECURSIVE SplitLines(_)
SplitLines(s) ==
    IF s = "" THEN << >>
    ELSE LET nl == Find(s, "\n")
         IN  IF nl < 0 THEN << s >>
             ELSE << UpTo(s, nl) >> \o SplitLines(From(s, nl + 1))

\* sep.join(parts)
RECURSIVE Join(_, _)
Join(sep, parts) ==
    IF parts = << >> THEN ""
    ELSE IF Len(parts) = 1 THEN parts[1]
    ELSE parts[1] \o sep \o Join(sep, Tail(parts))

Digits == "0123456789"

\* str(n) for a non-negative int
RECURSIVE Str(_)
Str(n) ==
    IF n < 10 THEN CharAt(Digits, n + 1)
    ELSE Str(n \div 10) \o CharAt(Digits, (n % 10) + 1)

\* sorted(S, reverse=True)
RECURSIVE SortedDescending(_)
SortedDescending(S) ==
    IF S = {} THEN << >>
    ELSE LET m == CHOOSE x \in S : \A y \in S \ {x} : StrLess(y, x)
         IN  << m >> \o SortedDescending(S \ {m})

\* sorted(S) for a set of str
RECURSIVE Sorted(_)
Sorted(S) ==
    IF S = {} THEN << >>
    ELSE LET m == CHOOSE x \in S : \A y \in S \ {x} : StrLess(x, y)
         IN  << m >> \o Sorted(S \ {m})

\* d.get(k, default)
Get(d, k, default) == IF k \in DOMAIN d THEN d[k] ELSE default

-----------------------------------------------------------------------------
(* _anchor                                                                 *)

\* One pass of the loop body: the cleaned line, for a line that is kept.
AnchorLine(raw) ==
    LET s == Strip(raw)
    IN  IF Contains(s, ": ") THEN Strip(AfterFirst(s, ": ")) ELSE s

\* The loop: lines that strip to "" are skipped, the loop breaks at two.
RECURSIVE AnchorLoop(_, _)
AnchorLoop(lines, stripped) ==
    IF lines = << >> \/ Len(stripped) = 2 THEN stripped
    ELSE IF Strip(Head(lines)) = "" THEN AnchorLoop(Tail(lines), stripped)
    ELSE AnchorLoop(Tail(lines), Append(stripped, AnchorLine(Head(lines))))

_anchor(code) == Join(" | ", AnchorLoop(SplitLines(code), << >>))

-----------------------------------------------------------------------------
(* _normalize_path                                                         *)

_MODULE_ROOT_MARKERS ==
    << "/internal/", "/cmd/", "/pkg/", "/scripts/",
       "/api/", "/docs/", "/test/", "/vendor/" >>

\* norm[idx:]: the marker's leading "/" kept
MarkerTailKeepSlash(norm, idx) == From(norm, idx)

\* norm[idx + 1:]
MarkerTail(norm, idx) == From(norm, idx + 1)

\* for marker in _MODULE_ROOT_MARKERS, from the k-th on: return at the first
\* marker that norm.find finds; return norm when none is found.
RECURSIVE MarkerLoop(_, _)
MarkerLoop(norm, k) ==
    IF k > Len(_MODULE_ROOT_MARKERS) THEN norm
    ELSE LET idx == Find(norm, _MODULE_ROOT_MARKERS[k])
         IN  IF idx >= 0 THEN MarkerTail(norm, idx) ELSE MarkerLoop(norm, k + 1)

\* dir is str(base_dir) of the Path.
_normalize_path(raw, dir) ==
    LET norm     == ReplaceBackslash(raw)
        base_fwd == RStripSlash(ReplaceBackslash(dir)) \o "/"
    IN  IF StartsWith(norm, base_fwd) THEN From(norm, Len(base_fwd))
        ELSE MarkerLoop(norm, 1)

-----------------------------------------------------------------------------
(* fingerprint                                                             *)

fingerprint(issue, dir) ==
    LET rule    == Get(issue, "rule_id", "")
        rel     == _normalize_path(Get(issue, "file", ""), dir)
        details == Get(issue, "details", "")
        anchor  == _anchor(Get(issue, "code", ""))
    IN  rule \o ":" \o rel \o ":" \o details \o ":" \o anchor

-----------------------------------------------------------------------------
(* Values that stand for "nothing yet"                                     *)

NotComputed == << [ unset |-> TRUE ] >>
NotWritten  == "<not written>"
Running     == -1
Idle        == "<idle>"

\* The variables of main() when another function is the one applied.
MainIdle ==
    /\ results_file = Idle /\ baseline_file = Idle
    /\ current = Idle /\ baseline = Idle
    /\ stats_cur = Idle /\ stats_base = Idle
    /\ new_issues = NotComputed /\ resolved_issues = NotComputed
    /\ stdout = << >> /\ report = NotWritten
    /\ exit_code = Running /\ error = "none"

PathIdle ==
    /\ raw_file = Idle /\ norm_once = Idle /\ norm_twice = Idle

AnchorIdle ==
    /\ src_lines = << >> /\ line_a = 0 /\ line_b = 0
    /\ anchor_a = Idle /\ fp_a = Idle /\ fp_b = Idle

\* All sequences over S of length 1..n
SeqsUpTo(S, n) == UNION { [1..k -> S] : k \in 1..n }

-----------------------------------------------------------------------------
(* _normalize_path applied to a path, and to its own result                *)

MaxSegs == 4

\* Directory and file names a reported path is made of; "" gives "//".
PathSegs == { "", "r", "internal", "cmd", "a.go" }
\* What a path starts with: nothing (relative), the POSIX root, a drive.
PathLeads == { "", "/", "C:" }
PathSeps == { "/", "\\" }
\* str(base_dir): POSIX, Windows, and the filesystem root.
Roots == { "/r", "C:\\r", "/" }

\* The reported path made of a lead and segments, written with one separator.
MakePath(lead, segs, sep) ==
    (IF lead = "C:" THEN lead \o sep ELSE IF lead = "/" THEN sep ELSE "")
        \o Join(sep, segs)

InitPath ==
    /\ pc = "path"
    /\ base_dir \in Roots
    /\ \E lead \in PathLeads, sep \in PathSeps, segs \in SeqsUpTo(PathSegs, MaxSegs) :
          raw_file = MakePath(lead, segs, sep)
    /\ norm_once = Idle /\ norm_twice = Idle
    /\ MainIdle /\ AnchorIdle

NormalizeOnce ==
    /\ pc = "path"
    /\ norm_once' = _normalize_path(raw_file, base_dir)
    /\ pc' = "normalized"
    /\ UNCHANGED << raw_file, base_dir, norm_twice, mainVars, anchorVars >>

NormalizeTwice ==
    /\ pc = "normalized"
    /\ norm_twice' = _normalize_path(norm_once, base_dir)
    /\ pc' = "renormalized"
    /\ UNCHANGED << raw_file, base_dir, norm_once, mainVars, anchorVars >>

NextPath == NormalizeOnce \/ NormalizeTwice

SpecPath == InitPath /\ [][NextPath]_vars

-----------------------------------------------------------------------------
(* _anchor and fingerprint applied to one snippet numbered from two lines  *)

MaxLines == 3

\* Source text of a snippet line: empty, indented, and one holding ": " of
\* its own.
LineTexts == { "", "  foo()", "  bar()", "k: v" }
\* The line a finding is reported at (the number of the snippet's first line).
LineNumbers == { 10, 55 }

\* gosec writes each snippet line as "<line number>: <source text>"; a line
\* that is not numbered is the source text alone.
RECURSIVE Snippet(_, _)
Snippet(lines, first) ==
    IF lines = << >> THEN ""
    ELSE LET l == (IF Head(lines).numbered THEN Str(first) \o ": " ELSE "")
                      \o Head(lines).text
         IN  IF Len(lines) = 1 THEN l
             ELSE l \o "\n" \o Snippet(Tail(lines), first + 1)

\* A finding with every field, reported at `first` with the snippet numbered
\* from there.
SnippetFinding(lines, first) ==
    [ rule_id |-> "G104", file |-> "/r/cmd/a.go", line |-> first,
      details |-> "Errors unhandled", code |-> Snippet(lines, first),
      severity |-> "LOW", confidence |-> "HIGH",
      cwe |-> [ id |-> "703", url |-> "https://cwe/703" ], nosec |-> FALSE ]

InitAnchor ==
    /\ pc = "snippet"
    /\ src_lines \in SeqsUpTo([ numbered : BOOLEAN, text : LineTexts ], MaxLines)
    /\ line_a \in LineNumbers /\ line_b \in LineNumbers
    /\ base_dir \in Roots
    /\ anchor_a = Idle /\ fp_a = Idle /\ fp_b = Idle
    /\ MainIdle /\ PathIdle

ComputeAnchor ==
    /\ pc = "snippet"
    /\ anchor_a' = _anchor(Snippet(src_lines, line_a))
    /\ pc' = "anchored"
    /\ UNCHANGED << src_lines, line_a, line_b, fp_a, fp_b, mainVars, pathVars >>

ComputeFingerprints ==
    /\ pc = "anchored"
    /\ fp_a' = fingerprint(SnippetFinding(src_lines, line_a), base_dir)
    /\ fp_b' = fingerprint(SnippetFinding(src_lines, line_b), base_dir)
    /\ pc' = "fingerprinted"
    /\ UNCHANGED << src_lines, line_a, line_b, anchor_a, mainVars, pathVars >>

NextAnchor == ComputeAnchor \/ ComputeFingerprints

SpecAnchor == InitAnchor /\ [][NextAnchor]_vars

-----------------------------------------------------------------------------
(* load_findings                                                           *)

EmptyDict == [ k \in {} |-> "" ]

\* d without key k
Without(d, k) == [ x \in DOMAIN d \ {k} |-> d[x] ]

\* Only a missing file raises: an unreadable or unparsable one reads as {}.
LoadErrorOnlyMissing(file) ==
    IF file.status = "missing" THEN "FileNotFoundError" ELSE "none"

\* data["Issues"] in place of data.get("Issues"): KeyError without the key.
LoadErrorIssuesRequired(file) ==
    CASE file.status = "missing"    -> "FileNotFoundError"
      [] file.status = "unreadable" -> "PermissionError"
      [] file.status = "invalid"    -> "JSONDecodeError"
      [] "Issues" \notin DOMAIN file.data -> "KeyError"
      [] OTHER                      -> "none"

\* The exception open() or json.load() raises for the file, "none" if the
\* file is read and parsed.
LoadError(file) ==
    CASE file.status = "missing"    -> "FileNotFoundError"
      [] file.status = "unreadable" -> "PermissionError"
      [] file.status = "invalid"    -> "JSONDecodeError"
      [] OTHER                      -> "none"

\* data.get("Issues") or []
IssuesOf(data) == IF "Issues" \in DOMAIN data THEN data["Issues"] ELSE << >>

\* No filter: every issue is active.
ActiveAll(issues) == issues

\* [i for i in issues if not i.get("nosec", False)]
Active(issues) == SelectSeq(issues, LAMBDA i : ~ Get(i, "nosec", FALSE))

\* for issue in active: fps[fingerprint(issue, base_dir)] = issue
RECURSIVE FillFps(_, _, _)
FillFps(active, dir, fps) ==
    IF active = << >> THEN fps
    ELSE FillFps(Tail(active), dir,
                 (fingerprint(Head(active), dir) :> Head(active)) @@ fps)

\* The pair load_findings returns for a file it could read and parse.
load_findings(file, dir) ==
    [ fps   |-> FillFps(Active(IssuesOf(file.data)), dir, EmptyDict),
      stats |-> Get(file.data, "Stats", EmptyDict) ]

-----------------------------------------------------------------------------
(* main: the diff                                                          *)

\* sorted(set(a) - set(b))
SortedDifference(a, b) == Sorted(DOMAIN a \ DOMAIN b)

\* [a[fp] for fp in sorted(set(a) - set(b))]
DiffIssues(a, b) ==
    LET fps == SortedDifference(a, b)
    IN  [ i \in 1..Len(fps) |-> a[fps[i]] ]

-----------------------------------------------------------------------------
(* main: what is printed                                                   *)

\* Characters of the script's literals that a TLA+ string cannot hold.
EmDash    == "--"         \* U+2014
CheckMark == "<check>"    \* U+2705
Siren     == "<siren>"    \* U+1F6A8
Middot    == "<middot>"   \* U+00B7
Backquote == "<bq>"       \* U+0060

\* f"{d.get(k, '?')}" for a field that holds an int
GetInt(d, k, default) == IF k \in DOMAIN d THEN Str(d[k]) ELSE default

_rel(issue, dir) == _normalize_path(Get(issue, "file", "?"), dir)

\* The six summary lines.
SummaryLines(cur, base, stats, new, resolved) ==
    << "Files scanned  : " \o GetInt(stats, "files", "?"),
       "Lines scanned  : " \o GetInt(stats, "lines", "?"),
       "nosec suppressed: " \o GetInt(stats, "nosec", "?"),
       "Active findings: " \o Str(Cardinality(DOMAIN cur)) \o "  (baseline: "
           \o Str(Cardinality(DOMAIN base)) \o ")",
       "New            : " \o Str(Len(new)),
       "Resolved       : " \o Str(Len(resolved)) >>

ResolvedLine(i, dir) ==
    "  [" \o i["rule_id"] \o "] " \o _rel(i, dir) \o ":" \o GetInt(i, "line", "?")
        \o " " \o EmDash \o " " \o Get(i, "details", "")

NewLine(i, dir) ==
    "  [" \o i["rule_id"] \o "] " \o Get(i, "severity", "?") \o "/"
        \o Get(i, "confidence", "?") \o " " \o _rel(i, dir) \o ":"
        \o GetInt(i, "line", "?") \o " " \o EmDash \o " " \o Get(i, "details", "")

\* for i in issues: print(...).  i['rule_id'] raises KeyError for an issue
\* without the key: the lines of the issues before it are already printed.
RECURSIVE ListLoop(_, _, _, _)
ListLoop(issues, dir, isNew, out) ==
    IF issues = << >> THEN [ lines |-> out, err |-> "none" ]
    ELSE IF "rule_id" \notin DOMAIN Head(issues)
         THEN [ lines |-> out, err |-> "KeyError" ]
    ELSE ListLoop(Tail(issues), dir, isNew,
                  Append(out, IF isNew THEN NewLine(Head(issues), dir)
                                       ELSE ResolvedLine(Head(issues), dir)))

-----------------------------------------------------------------------------
(* build_issue_body                                                        *)

\* issue.get("cwe") or {}
CweOf(issue) == Get(issue, "cwe", EmptyDict)

\* cwe['id'] or cwe['url'] raises KeyError when a non-empty cwe lacks it.
CweError(issue) ==
    /\ DOMAIN CweOf(issue) # {}
    /\ ~ ({"id", "url"} \subseteq DOMAIN CweOf(issue))

CweStr(issue) ==
    IF DOMAIN CweOf(issue) # {}
    THEN " " \o EmDash \o " [CWE-" \o CweOf(issue)["id"] \o "]("
             \o CweOf(issue)["url"] \o ")"
    ELSE ""

\* The lines one new finding adds to the body.
IssueBlock(issue, dir) ==
    LET rule == Get(issue, "rule_id", "?")
    IN  << "#### " \o Backquote \o rule \o Backquote \o " " \o Middot \o " "
               \o Get(issue, "severity", "?") \o "/" \o Get(issue, "confidence", "?")
               \o " " \o EmDash \o " " \o Get(issue, "details", "?") \o CweStr(issue),
           "**File:** " \o Backquote \o _rel(issue, dir) \o Backquote \o " line "
               \o GetInt(issue, "line", "?"),
           Backquote \o Backquote \o Backquote \o "go",
           Strip(Get(issue, "code", "")),
           Backquote \o Backquote \o Backquote,
           "",
           "> If this is a false positive, add " \o Backquote \o "// #nosec "
               \o rule \o " -- <reason>" \o Backquote \o " to the flagged line, "
               \o "then regenerate the baseline with " \o Backquote
               \o "bash scripts/update-gosec-baseline.sh" \o Backquote
               \o " and commit both.",
           "" >>

RECURSIVE BodyLoop(_, _, _)
BodyLoop(issues, dir, out) ==
    IF issues = << >> THEN [ lines |-> out, err |-> "none" ]
    ELSE IF CweError(Head(issues)) THEN [ lines |-> out, err |-> "KeyError" ]
    ELSE BodyLoop(Tail(issues), dir, out \o IssueBlock(Head(issues), dir))

BodyHeader(n, resolved_count, env) ==
    LET ref    == Get(env, "GITHUB_REF_NAME", "<branch>")
        sha    == Get(env, "GITHUB_SHA", "<sha>")
        server == Get(env, "GITHUB_SERVER_URL", "https://github.com")
        repo   == Get(env, "GITHUB_REPOSITORY", "<owner/repo>")
        run_id == Get(env, "GITHUB_RUN_ID", "<run>")
    IN  << "## " \o Siren \o " New gosec Security Findings",
           "",
           "The security scan found **" \o Str(n)
               \o " new finding(s)** not present in the committed baseline.",
           "",
           "| | |",
           "|---|---|",
           "| Branch | " \o Backquote \o ref \o Backquote \o " |",
           "| Commit | " \o Backquote \o UpTo(sha, 12) \o Backquote \o " |",
           "| Workflow run | [" \o run_id \o "](" \o server \o "/" \o repo
               \o "/actions/runs/" \o run_id \o ") |",
           "| Resolved (now gone) | " \o Str(resolved_count) \o " |",
           "",
           "### New Findings",
           "" >>

BodyFooter ==
    << "---",
       "_Auto-created by the [" \o Backquote \o "gosec" \o Backquote
           \o " CI job](/.github/workflows/ci.yml). "
           \o "Close once all findings are fixed, suppressed, or added to the "
           \o "baseline with justification._" >>

\* [body, err]: the Markdown text, or the KeyError of the first finding whose
\* cwe lacks a sub-field.
build_issue_body(issues, resolved_count, dir, env) ==
    LET loop == BodyLoop(issues, dir, BodyHeader(Len(issues), resolved_count, env))
    IN  IF loop.err # "none" THEN [ body |-> "", err |-> loop.err ]
        ELSE [ body |-> Join("\n", loop.lines \o BodyFooter), err |-> "none" ]

-----------------------------------------------------------------------------
(* main: the input documents                                               *)

\* Findings in the two documents together (Spec), and in SpecMissing.
MaxIssues == 3
MaxMissing == 1

TwoLines == << [ numbered |-> TRUE, text |-> "  foo()" ],
               [ numbered |-> TRUE, text |-> "  bar()" ] >>

\* A finding with every field, and the same finding after the file grew by
\* 45 lines above it.
Reported == SnippetFinding(TwoLines, 10)
Drifted  == SnippetFinding(TwoLines, 55)
\* Another rule in another file, reported from a Windows checkout, with no
\* nosec key.
Other ==
    Without([ Reported EXCEPT !.rule_id = "G304",
                              !.file = "C:\\dev\\r\\internal\\b.go",
                              !.details = "File inclusion" ], "nosec")
\* A finding gosec reports as suppressed by a #nosec comment.
Suppressed == [ Reported EXCEPT !.nosec = TRUE, !.line = 11 ]
\* A finding without its rule_id.
NoRule == Without([ Reported EXCEPT !.file = "/r/pkg/d.go" ], "rule_id")

Findings == { Reported, Drifted, Other, Suppressed, NoRule }

\* Reported with one field, or one sub-field of cwe, absent; and with an
\* empty cwe.
PartialFindings ==
    { Without(Reported, k) : k \in DOMAIN Reported }
        \cup { [ Reported EXCEPT !.cwe = Without(Reported.cwe, k) ] :
                 k \in DOMAIN Reported.cwe }
        \cup { [ Reported EXCEPT !.cwe = EmptyDict ], Reported }

ScanStats == [ files |-> 12, lines |-> 340, nosec |-> 1 ]

\* Parsed documents holding at most n findings from pool: with and without
\* the Issues key, with and without the Stats key.
Documents(pool, n) ==
    LET lists == { << >> } \cup SeqsUpTo(pool, n)
    IN  { EmptyDict, [ Stats |-> ScanStats ] }
            \cup { [ Issues |-> l ] : l \in lists }
            \cup { [ Issues |-> l, Stats |-> ScanStats ] : l \in lists }

\* The files --results and --baseline may name.
Files(pool, n) ==
    { [ status |-> st, data |-> EmptyDict ] :
        st \in { "missing", "unreadable", "invalid" } }
        \cup { [ status |-> "ok", data |-> d ] : d \in Documents(pool, n) }

NIssues(file) == Len(IssuesOf(file.data))

\* str(Path(args.base_dir).resolve())
RunRoots == { "/r" }

InitMain(pool, n) ==
    /\ pc = "start"
    /\ base_dir \in RunRoots
    /\ results_file \in Files(pool, n)
    /\ baseline_file \in Files(pool, n - NIssues(results_file))
    /\ current = EmptyDict /\ baseline = EmptyDict
    /\ stats_cur = EmptyDict /\ stats_base = EmptyDict
    /\ new_issues = NotComputed /\ resolved_issues = NotComputed
    /\ stdout = << >> /\ report = NotWritten
    /\ exit_code = Running /\ error = "none"
    /\ PathIdle /\ AnchorIdle

Init == InitMain(Findings, MaxIssues)

InitMissing == InitMain(PartialFindings, MaxMissing)

-----------------------------------------------------------------------------
(* main                                                                    *)

\* An uncaught exception: the interpreter prints the traceback to stderr and
\* exits with status 1.
Raise(exc) ==
    /\ pc' = "done"
    /\ exit_code' = 1
    /\ error' = exc

\* current, stats_cur = load_findings(args.results, base_dir)
LoadResults ==
    /\ pc = "start"
    /\ IF LoadError(results_file) # "none"
       THEN /\ Raise(LoadError(results_file))
            /\ UNCHANGED << current, stats_cur >>
       ELSE /\ LET loaded == load_findings(results_file, base_dir)
               IN  /\ current' = loaded.fps
                   /\ stats_cur' = loaded.stats
            /\ pc' = "loaded_results"
            /\ UNCHANGED << exit_code, error >>
    /\ UNCHANGED << results_file, baseline_file, baseline, stats_base,
                    new_issues, resolved_issues, stdout, report, base_dir,
                    raw_file, norm_once, norm_twice, anchorVars >>

\* baseline, stats_base = load_findings(args.baseline, base_dir)
LoadBaseline ==
    /\ pc = "loaded_results"
    /\ IF LoadError(baseline_file) # "none"
       THEN /\ Raise(LoadError(baseline_file))
            /\ UNCHANGED << baseline, stats_base >>
       ELSE /\ LET loaded == load_findings(baseline_file, base_dir)
               IN  /\ baseline' = loaded.fps
                   /\ stats_base' = loaded.stats
            /\ pc' = "loaded"
            /\ UNCHANGED << exit_code, error >>
    /\ UNCHANGED << results_file, baseline_file, current, stats_cur,
                    new_issues, resolved_issues, stdout, report, base_dir,
                    raw_file, norm_once, norm_twice, anchorVars >>

\* new_fps, resolved_fps, new_issues, resolved_issues
Compare ==
    /\ pc = "loaded"
    /\ new_issues' = DiffIssues(current, baseline)
    /\ resolved_issues' = DiffIssues(baseline, current)
    /\ pc' = "compared"
    /\ UNCHANGED << results_file, baseline_file, current, baseline, stats_cur,
                    stats_base, stdout, report, exit_code, error, pathVars,
                    anchorVars >>

\* The six print calls of the summary.
Summary ==
    /\ pc = "compared"
    /\ stdout' = stdout \o SummaryLines(current, baseline, stats_cur,
                                        new_issues, resolved_issues)
    /\ pc' = "summarized"
    /\ UNCHANGED << results_file, baseline_file, current, baseline, stats_cur,
                    stats_base, new_issues, resolved_issues, report, exit_code,
                    error, pathVars, anchorVars >>

\* if resolved_issues: the heading and one line per resolved finding.
ListResolved ==
    /\ pc = "summarized"
    /\ IF resolved_issues = << >>
       THEN /\ pc' = "listed_resolved"
            /\ UNCHANGED << stdout, exit_code, error >>
       ELSE LET heading == "\n" \o CheckMark \o " Resolved (in baseline but no longer "
                               \o "present " \o EmDash \o " consider pruning baseline):"
                loop == ListLoop(resolved_issues, base_dir, FALSE, << heading >>)
            IN  /\ stdout' = stdout \o loop.lines
                /\ IF loop.err # "none"
                   THEN Raise(loop.err)
                   ELSE /\ pc' = "listed_resolved"
                        /\ UNCHANGED << exit_code, error >>
    /\ UNCHANGED << results_file, baseline_file, current, baseline, stats_cur,
                    stats_base, new_issues, resolved_issues, report, pathVars,
                    anchorVars >>

\* if not new_issues: print(...); sys.exit(0)
ExitClean ==
    /\ pc = "listed_resolved"
    /\ new_issues = << >>
    /\ stdout' = Append(stdout, "\n" \o CheckMark \o " No new security findings "
                                    \o EmDash \o " scan clean.")
    /\ exit_code' = 0
    /\ pc' = "done"
    /\ UNCHANGED << results_file, baseline_file, current, baseline, stats_cur,
                    stats_base, new_issues, resolved_issues, report, error,
                    pathVars, anchorVars >>

\* The heading and one line per new finding.
ListNew ==
    /\ pc = "listed_resolved"
    /\ new_issues # << >>
    /\ LET heading == "\n" \o Siren \o " NEW findings not in baseline:"
           loop == ListLoop(new_issues, base_dir, TRUE, << heading >>)
       IN  /\ stdout' = stdout \o loop.lines
           /\ IF loop.err # "none"
              THEN Raise(loop.err)
              ELSE /\ pc' = "listed_new"
                   /\ UNCHANGED << exit_code, error >>
    /\ UNCHANGED << results_file, baseline_file, current, baseline, stats_cur,
                    stats_base, new_issues, resolved_issues, report, pathVars,
                    anchorVars >>

\* os.environ as build_issue_body finds it: outside CI, and in a CI job.
Environments ==
    { EmptyDict,
      [ GITHUB_REF_NAME |-> "main",
        GITHUB_SHA |-> "0123456789abcdef0123",
        GITHUB_SERVER_URL |-> "https://ghe.example",
        GITHUB_REPOSITORY |-> "o/r",
        GITHUB_RUN_ID |-> "77" ] }

None == "<None>"
\* args.output
Outputs == { None, "/tmp/issue-body.md" }

\* body = build_issue_body(...); the optional write_text; sys.exit(1).
\* Inputs read here: the environment, --output, and whether the output file
\* can be written (write_text raises OSError when it cannot).
Report ==
    /\ pc = "listed_new"
    /\ \E env \in Environments :
          LET built == build_issue_body(new_issues, Len(resolved_issues),
                                        base_dir, env)
          IN  \E output \in Outputs, writable \in BOOLEAN :
                  IF built.err # "none"
                  THEN /\ Raise(built.err)
                       /\ UNCHANGED << stdout, report >>
                  ELSE IF output = None
                  THEN /\ pc' = "done" /\ exit_code' = 1
                       /\ UNCHANGED << stdout, report, error >>
                  ELSE IF ~ writable
                  THEN /\ Raise("OSError")
                       /\ UNCHANGED << stdout, report >>
                  ELSE /\ report' = built.body
                       /\ stdout' = Append(stdout, "\nIssue body written to: "
                                                       \o output)
                       /\ pc' = "done" /\ exit_code' = 1
                       /\ UNCHANGED error
    /\ UNCHANGED << results_file, baseline_file, current, baseline, stats_cur,
                    stats_base, new_issues, resolved_issues, pathVars,
                    anchorVars >>

Next ==
    \/ LoadResults
    \/ LoadBaseline
    \/ Compare
    \/ Summary
    \/ ListResolved
    \/ ExitClean
    \/ ListNew
    \/ Report

Spec == Init /\ [][Next]_vars

SpecMissing == InitMissing /\ [][Next]_vars

-----------------------------------------------------------------------------
(* Properties of _normalize_path                                           *)

\* C5: normalising an already normalised path changes nothing:
\* _normalize_path(_normalize_path(p, root), root) = _normalize_path(p, root)
\* for every path p and root.
C5_NormalizeIdempotent ==
    pc = "renormalized" => norm_twice = norm_once

\* The directory names of the module-root markers, as the claim lists them.
MarkerDirs ==
    { "internal", "cmd", "pkg", "scripts", "api", "docs", "test", "vendor" }

\* s.split("/")
RECURSIVE Components(_)
Components(s) ==
    LET k == Find(s, "/")
    IN  IF k < 0 THEN << s >> ELSE << UpTo(s, k) >> \o Components(From(s, k + 1))

\* The ways to read raw_file as P, a separator, r: one per separator in it.
PrefixSplits ==
    { i \in 1..Len(raw_file) : CharAt(raw_file, i) \in PathSeps }
PrefixAt(i) == ReplaceBackslash(UpTo(raw_file, i - 1))
RelativeAt(i) == ReplaceBackslash(From(raw_file, i))

\* r is a repository-relative path whose first directory is a marker.
LeadsWithMarker(r) == \E m \in MarkerDirs : StartsWith(r, m \o "/")

\* P is an absolute prefix that does not start with the root.
ForeignPrefix(P) ==
    /\ StartsWith(P, "/") \/ StartsWith(P, "C:")
    /\ ~ StartsWith(P, ReplaceBackslash(base_dir))

\* r placed under the root: R + '/' + r
UnderRoot(r) == RStripSlash(ReplaceBackslash(base_dir)) \o "/" \o r

\* r's leading directory is the only directory of P + '/' + r that bears a
\* marker name.
SoleMarker(P, r) ==
    /\ \A k \in DOMAIN Components(P) : Components(P)[k] \notin MarkerDirs
    /\ \A k \in 2..(Len(Components(r)) - 1) : Components(r)[k] \notin MarkerDirs

-----------------------------------------------------------------------------
(* Properties of _anchor and fingerprint                                   *)

\* The first two source lines of the snippet that are not blank, each without
\* its surrounding whitespace, joined by " | ".
RECURSIVE Meaningful(_)
Meaningful(lines) ==
    IF lines = << >> THEN << >>
    ELSE IF Strip(Head(lines).text) = "" THEN Meaningful(Tail(lines))
    ELSE << Strip(Head(lines).text) >> \o Meaningful(Tail(lines))

ExpectedAnchor(lines) ==
    Join(" | ", SubSeq(Meaningful(lines), 1,
                       IF Len(Meaningful(lines)) < 2 THEN Len(Meaningful(lines)) ELSE 2))

\* C3: two findings that differ only in line and in the numbers of the
\* snippet's line-number prefixes have the same fingerprint.
C3_LineDriftInvariance ==
    pc = "fingerprinted" => fp_a = fp_b

\* C4: _anchor returns the first two lines that are non-blank once the
\* line-number prefix is removed, only that prefix stripped, joined by " | ";
\* a line that is only a prefix ("11: ") is skipped.
C4_AnchorExtraction ==
    pc # "snippet" => anchor_a = ExpectedAnchor(src_lines)

-----------------------------------------------------------------------------
(* Properties of a run of main                                             *)

\* The file was read and parsed.
Loaded(file) == file.status = "ok"

\* The diff has been computed.
DiffDone == new_issues # NotComputed

FingerprintsOf(issues) ==
    [ i \in DOMAIN issues |-> fingerprint(issues[i], base_dir) ]

\* C1: for two loaded documents the run ends with exit code 0 exactly when
\* there is no new finding and with 1 when there is one; with the same
\* fingerprints in both documents it ends with 0, nothing new and nothing
\* resolved.
C1_ExitCodeTellsNewFindings ==
    (pc = "done" /\ Loaded(results_file) /\ Loaded(baseline_file)) =>
        /\ exit_code = 0 <=> new_issues = << >>
        /\ new_issues # << >> => exit_code = 1
        /\ DOMAIN current = DOMAIN baseline =>
              exit_code = 0 /\ new_issues = << >> /\ resolved_issues = << >>

\* list holds, once each and in ascending order of fingerprint, the findings
\* of a whose fingerprint is not a key of b.
IsDiffOf(list, a, b) ==
    LET fps == FingerprintsOf(list)
    IN  /\ \A i \in DOMAIN list :
              fps[i] \in DOMAIN a \ DOMAIN b /\ list[i] = a[fps[i]]
        /\ \A fp \in DOMAIN a \ DOMAIN b : \E i \in DOMAIN list : fps[i] = fp
        /\ \A i, j \in DOMAIN list : i < j => StrLess(fps[i], fps[j])

\* What the diff step leaves in new_issues and resolved_issues.
DiffIsExact ==
    pc = "compared" => /\ IsDiffOf(new_issues, current, baseline)
                       /\ IsDiffOf(resolved_issues, baseline, current)

\* The orders a document's findings can appear in.
Reorderings(issues) ==
    { [ i \in DOMAIN issues |-> issues[p[i]] ] : p \in Permutations(DOMAIN issues) }

\* The FindingSets the document loads as, over the orders of its findings.
Reloadings(file) ==
    { FillFps(Active(issues), base_dir, EmptyDict) :
        issues \in Reorderings(IssuesOf(file.data)) }

\* The (new, resolved) pairs the diff yields over the orders of the findings
\* in the two documents.
DiffsOverDocumentOrders ==
    { << DiffIssues(cur, base), DiffIssues(base, cur) >> :
        cur \in Reloadings(results_file), base \in Reloadings(baseline_file) }

C7_MissingFieldNeverRaises ==
    (Loaded(results_file) /\ Loaded(baseline_file)) => error # "KeyError"

\* C8: when either document cannot be loaded the run ends with a non-zero
\* exit status, and no diff is computed, nothing is printed and no report is
\* written.
C8_LoadErrorIsFatal ==
    (~ Loaded(results_file) \/ ~ Loaded(baseline_file)) =>
        /\ ~ Loaded(results_file) => pc \in { "start", "done" }
        /\ pc \in { "start", "loaded_results", "done" }
        /\ pc = "done" => exit_code \notin { 0, Running }
        /\ new_issues = NotComputed /\ resolved_issues = NotComputed
        /\ stdout = << >>
        /\ report = NotWritten

\* The results are loaded, the baseline is not valid JSON, the run is over.
C8_Witness ==
    /\ pc = "done"
    /\ Loaded(results_file) /\ NIssues(results_file) > 0
    /\ baseline_file.status = "invalid"
    /\ exit_code = 1 /\ error = "JSONDecodeError"

\* The suppression flag of the finding is set.
IsSuppressed(issue) == "nosec" \in DOMAIN issue /\ issue["nosec"] = TRUE

\* C9: no finding whose suppression flag is set is a value of a loaded
\* FindingSet, nor an element of the new or of the resolved list.
C9_SuppressedExcluded ==
    /\ \A fp \in DOMAIN current : ~ IsSuppressed(current[fp])
    /\ \A fp \in DOMAIN baseline : ~ IsSuppressed(baseline[fp])
    /\ DiffDone =>
          /\ \A i \in DOMAIN new_issues : ~ IsSuppressed(new_issues[i])
          /\ \A i \in DOMAIN resolved_issues : ~ IsSuppressed(resolved_issues[i])

\* Both documents hold a suppressed finding, the results an active one too,
\* and the diff is computed.
C9_Witness ==
    /\ pc = "compared"
    /\ \E i \in DOMAIN IssuesOf(results_file.data) :
          IsSuppressed(IssuesOf(results_file.data)[i])
    /\ \E i \in DOMAIN IssuesOf(baseline_file.data) :
          IsSuppressed(IssuesOf(baseline_file.data)[i])
    /\ Len(new_issues) = 1

\* A parsed document with neither an Issues nor a Stats key.
NoKeys(file) == Loaded(file) /\ DOMAIN file.data = {}

\* The run ended in load_findings: nothing was printed before it ended.
EndedInLoad == pc = "done" /\ error # "none" /\ stdout = << >>

StatsFields == { "files", "lines", "nosec" }

\* C10 as claimed: a document without Issues and Stats loads as an empty
\* FindingSet and Stats whose fields files, lines and nosec are zero.
C10_NoKeysLoadsZeroStats ==
    (NoKeys(results_file) /\ pc # "start") =>
        /\ current = EmptyDict
        /\ \A k \in StatsFields : k \in DOMAIN stats_cur /\ stats_cur[k] = 0

\* C10 amended: such a document loads without an error as an empty
\* FindingSet and an empty Stats mapping: the fields are absent, not zero, and
\* the summary prints "?" for each.
C10_NoKeysLoadsEmpty ==
    /\ (NoKeys(results_file) /\ pc # "start") =>
          /\ EndedInLoad => ~ Loaded(baseline_file)
          /\ current = EmptyDict /\ stats_cur = EmptyDict
          /\ Len(stdout) >= 3 =>
                /\ stdout[1] = "Files scanned  : ?"
                /\ stdout[2] = "Lines scanned  : ?"
                /\ stdout[3] = "nosec suppressed: ?"
    /\ (NoKeys(baseline_file) /\ Loaded(results_file)
            /\ pc \notin { "start", "loaded_results" }) =>
          /\ ~ EndedInLoad
          /\ baseline = EmptyDict /\ stats_base = EmptyDict

\* Both documents are {} and the run ended clean.
C10_Witness ==
    /\ pc = "done"
    /\ NoKeys(results_file) /\ NoKeys(baseline_file)
    /\ exit_code = 0
    /\ stdout[1] = "Files scanned  : ?"

=============================================================================
